---- MODULE Spec2Model ----
(***************************************************************************)
(* Model of the diffy map-diff engines.                                    *)
(*                                                                         *)
(*   src/src/diff/map_diff.rs  generic engine (serde_json::Value values)   *)
(*   src/src/map_diff.rs       string engine  (String values)              *)
(*                                                                         *)
(* Keys are the naturals 1..NumKeys; key i stands for the string "key_i",  *)
(* so that < on keys is the lexicographic order of the strings.  Values    *)
(* are the naturals 1..NumValues; value i stands for the document          *)
(* "value_i", and = on them is the PartialEq of the value type.            *)
(*                                                                         *)
(* A HashMap is a function from a subset of Keys to Values.  The HashSet   *)
(* all_keys has no defined iteration order (std RandomState): the order in *)
(* which `for key in all_keys` visits the keys is any permutation of the   *)
(* set, chosen anew by every call.                                         *)
(***************************************************************************)
EXTENDS Naturals, Sequences, FiniteSets

NumKeys == 3
NumValues == 2

Keys == 1..NumKeys
Values == 1..NumValues

\* HashMap<String, Value>: every finite mapping over the key universe.
Mappings == UNION {[S -> Values] : S \in SUBSET Keys}

\* The iteration orders a HashSet holding the set S can produce.
IterationOrders(S) ==
    {s \in [1..Cardinality(S) -> S] : \A i, j \in 1..Cardinality(S) : s[i] = s[j] => i = j}

\* all_keys: left.keys().chain(right.keys()).cloned().collect()
all_keys_of(left, right) == DOMAIN left \cup DOMAIN right

(***************************************************************************)
(* Records (enum MapDiff and its payload structs).                         *)
(***************************************************************************)
EntryUnchanged(k, v) == [tag |-> "Unchanged", key |-> k, value |-> v]
EntryAdded(k, v) == [tag |-> "EntryAdded", key |-> k, value |-> v]
EntryRemoved(k, v) == [tag |-> "EntryRemoved", key |-> k, value |-> v]
ValueModified(k, ov, nv) ==
    [tag |-> "ValueModified", key |-> k, old_value |-> ov, new_value |-> nv]
KeyModified(ok, nk, v) ==
    [tag |-> "KeyModified", old_key |-> ok, new_key |-> nk, value |-> v]

\* MapDiff::is_change
is_change(d) == d.tag # "Unchanged"

\* Variant of diff_map_values with the comparison inverted.
diff_map_values_inverted(l, r) ==
    IF l # r
    THEN [tag |-> "Unchanged"]
    ELSE [tag |-> "Modified", old_value |-> l, new_value |-> r]

\* Variant of diff_map_values that swaps the two sides of a modification.
diff_map_values_swapped(l, r) ==
    IF l = r
    THEN [tag |-> "Unchanged"]
    ELSE [tag |-> "Modified", old_value |-> r, new_value |-> l]

\* diff_map_values of the generic engine: direct comparison of the values.
diff_map_values(l, r) ==
    IF l = r
    THEN [tag |-> "Unchanged"]
    ELSE [tag |-> "Modified", old_value |-> l, new_value |-> r]

\* The body of the classification loop for one key.
classify_key(left, right, key, acc) ==
    IF key \in DOMAIN left /\ key \in DOMAIN right
    THEN LET vd == diff_map_values(left[key], right[key])
         IN  [acc EXCEPT !.diffs =
                 Append(@, IF vd.tag = "Unchanged"
                           THEN EntryUnchanged(key, left[key])
                           ELSE ValueModified(key, vd.old_value, vd.new_value))]
    ELSE IF key \in DOMAIN left
    THEN [acc EXCEPT !.entries_removed = Append(@, EntryRemoved(key, left[key]))]
    ELSE [acc EXCEPT !.entries_added = Append(@, EntryAdded(key, right[key]))]

\* for key in all_keys { ... }, keys being the order the set is iterated in.
RECURSIVE classify_keys(_, _, _, _)
classify_keys(left, right, keys, acc) ==
    IF keys = <<>>
    THEN acc
    ELSE classify_keys(left, right, Tail(keys), classify_key(left, right, Head(keys), acc))

\* Variant of position that takes the first added entry whatever its value.
position_first(entries_added, value) ==
    IF entries_added = <<>> THEN 0 ELSE 1

\* entries_added.iter().position(|added| entry.value == added.value); 0 is None.
position(entries_added, value) ==
    LET hits == {i \in 1..Len(entries_added) : entries_added[i].value = value}
    IN  IF hits = {} THEN 0 ELSE CHOOSE i \in hits : \A j \in hits : i <= j

\* Variant of swap_remove that pops the last element instead (Vec::pop).
swap_remove_pop(s, pos) ==
    [i \in 1..(Len(s) - 1) |-> s[i]]

\* Variant of swap_remove that leaves the matched entry in the pool.
swap_remove_keep(s, pos) == s

\* Vec::swap_remove: the last element takes the place of the removed one.
swap_remove(s, pos) ==
    [i \in 1..(Len(s) - 1) |-> IF i = pos THEN s[Len(s)] ELSE s[i]]

\* for entry in entries_removed { ... }
RECURSIVE reconcile(_, _, _)
reconcile(entries_removed, entries_added, diffs) ==
    IF entries_removed = <<>>
    THEN [diffs |-> diffs, entries_added |-> entries_added]
    ELSE LET entry == Head(entries_removed)
             matched_position == position(entries_added, entry.value)
         IN  IF matched_position # 0
             THEN reconcile(Tail(entries_removed),
                            swap_remove(entries_added, matched_position),
                            Append(diffs, KeyModified(entry.key,
                                                      entries_added[matched_position].key,
                                                      entry.value)))
             ELSE reconcile(Tail(entries_removed), entries_added, Append(diffs, entry))

\* Variant of push_added that puts the remaining added entries in front.
push_added_front(diffs, entries_added) == entries_added \o diffs

\* for entry in entries_added { diffs.push(MapDiff::EntryAdded(entry)) }
push_added(diffs, entries_added) == diffs \o entries_added

\* The generic map_diff, given the order in which all_keys is iterated.
map_diff(left, right, keys) ==
    LET c == classify_keys(left, right, keys,
                           [diffs |-> <<>>, entries_added |-> <<>>, entries_removed |-> <<>>])
        r == reconcile(c.entries_removed, c.entries_added, c.diffs)
    IN  push_added(r.diffs, r.entries_added)

(***************************************************************************)
(* The string engine (src/src/map_diff.rs).                                *)
(***************************************************************************)
string_diff_map_values(l, r) ==
    IF l = r
    THEN [tag |-> "Unchanged"]
    ELSE [tag |-> "Modified", old_value |-> l, new_value |-> r]

string_classify_key(left, right, key, diffs) ==
    IF key \in DOMAIN left /\ key \in DOMAIN right
    THEN LET vd == string_diff_map_values(left[key], right[key])
         IN  Append(diffs, IF vd.tag = "Unchanged"
                           THEN EntryUnchanged(key, left[key])
                           ELSE ValueModified(key, vd.old_value, vd.new_value))
    ELSE IF key \in DOMAIN left
    THEN Append(diffs, EntryRemoved(key, left[key]))
    ELSE Append(diffs, EntryAdded(key, right[key]))

RECURSIVE string_map_diff_loop(_, _, _, _)
string_map_diff_loop(left, right, keys, diffs) ==
    IF keys = <<>>
    THEN diffs
    ELSE string_map_diff_loop(left, right, Tail(keys),
                              string_classify_key(left, right, Head(keys), diffs))

string_map_diff(left, right, keys) == string_map_diff_loop(left, right, keys, <<>>)

(***************************************************************************)
(* State: the two input maps, and for each engine the iteration order its  *)
(* call drew for all_keys and the list it returned.                        *)
(***************************************************************************)
VARIABLES left, right, pc, all_keys, diffs, string_pc, string_all_keys, string_diffs

vars == <<left, right, pc, all_keys, diffs, string_pc, string_all_keys, string_diffs>>

Init ==
    /\ left \in Mappings
    /\ right \in Mappings
    /\ pc = "ready"
    /\ all_keys = <<>>
    /\ diffs = <<>>
    /\ string_pc = "ready"
    /\ string_all_keys = <<>>
    /\ string_diffs = <<>>

\* One call of the generic map_diff(&left, &right).
MapDiff ==
    /\ pc = "ready"
    /\ \E keys \in IterationOrders(all_keys_of(left, right)) :
          /\ all_keys' = keys
          /\ diffs' = map_diff(left, right, keys)
    /\ pc' = "done"
    /\ UNCHANGED <<left, right, string_pc, string_all_keys, string_diffs>>

\* A further call of the generic map_diff on the same two maps.
MapDiffAgain ==
    /\ pc = "done"
    /\ \E keys \in IterationOrders(all_keys_of(left, right)) :
          /\ all_keys' = keys
          /\ diffs' = map_diff(left, right, keys)
    /\ UNCHANGED <<left, right, pc, string_pc, string_all_keys, string_diffs>>

\* One call of the string engine's map_diff(&left, &right).
StringMapDiff ==
    /\ string_pc = "ready"
    /\ \E keys \in IterationOrders(all_keys_of(left, right)) :
          /\ string_all_keys' = keys
          /\ string_diffs' = string_map_diff(left, right, keys)
    /\ string_pc' = "done"
    /\ UNCHANGED <<left, right, pc, all_keys, diffs>>

Next == MapDiff

Spec == Init /\ [][Next]_vars

NextRuns == MapDiff \/ MapDiffAgain

SpecRuns == Init /\ [][NextRuns]_vars

NextEngines == MapDiff \/ StringMapDiff

SpecEngines == Init /\ [][NextEngines]_vars

(***************************************************************************)
(* Properties.                                                             *)
(***************************************************************************)
Records(s) == {s[i] : i \in 1..Len(s)}

KeysOf(d) == IF d.tag = "KeyModified" THEN {d.old_key, d.new_key} ELSE {d.key}

Tags(s) == {s[i].tag : i \in 1..Len(s)}

LeftOnly == DOMAIN left \ DOMAIN right
RightOnly == DOMAIN right \ DOMAIN left
Shared == DOMAIN left \cap DOMAIN right

Min2(a, b) == IF a <= b THEN a ELSE b

\* C1 (coverage): in the list returned by the generic map_diff, every key of
\* left or right is mentioned by exactly one record (as its key, or as the
\* old_key or new_key of a KeyModified), and no record mentions another key.
Coverage ==
    pc = "done" =>
        /\ \A k \in all_keys_of(left, right) :
              Cardinality({i \in 1..Len(diffs) : k \in KeysOf(diffs[i])}) = 1
        /\ \A i \in 1..Len(diffs) : KeysOf(diffs[i]) \subseteq all_keys_of(left, right)

\* A rename was reported next to an addition or removal that stayed unmatched.
CoverageWitness ==
    /\ pc = "done"
    /\ "KeyModified" \in Tags(diffs)
    /\ Tags(diffs) \cap {"EntryAdded", "EntryRemoved"} # {}
    /\ Len(diffs) < Cardinality(all_keys_of(left, right))

\* C2 (rename soundness): every KeyModified record has old_key only in left,
\* new_key only in right, old_key # new_key, and left[old_key] = right[new_key]
\* = value.
RenameSoundness ==
    pc = "done" =>
        \A i \in 1..Len(diffs) :
            diffs[i].tag = "KeyModified" =>
                /\ diffs[i].old_key \in LeftOnly
                /\ diffs[i].new_key \in RightOnly
                /\ diffs[i].old_key # diffs[i].new_key
                /\ left[diffs[i].old_key] = diffs[i].value
                /\ right[diffs[i].new_key] = diffs[i].value

\* A rename was reported although an added entry with another value was
\* visited before the matching one.
RenameSoundnessWitness ==
    /\ pc = "done"
    /\ \E i, j \in 1..Len(diffs) :
          /\ diffs[i].tag = "KeyModified"
          /\ diffs[j].tag = "EntryAdded"
          /\ diffs[j].value # diffs[i].value
          /\ \E a, b \in 1..Len(all_keys) :
                a < b /\ all_keys[a] = diffs[j].key /\ all_keys[b] = diffs[i].new_key

\* C3 (determinism): two calls of the generic map_diff on the same maps return
\* the same sequence of records, whatever order all_keys is iterated in.
Determinism == [][(pc = "done" /\ pc' = "done") => diffs' = diffs]_vars

\* The removed/renamed records of the output, in output order.
MiddleRecords == SelectSeq(diffs, LAMBDA d : d.tag \in {"KeyModified", "EntryRemoved"})

OldKey(d) == IF d.tag = "KeyModified" THEN d.old_key ELSE d.key

\* The added candidates with value v still in the pool when the i-th removed
\* candidate is processed.
PoolBefore(i, v) ==
    {k \in RightOnly :
        /\ right[k] = v
        /\ ~ \E j \in 1..(i - 1) :
               MiddleRecords[j].tag = "KeyModified" /\ MiddleRecords[j].new_key = k}

\* C4 (tie-break): removed candidates are processed in ascending key order, and
\* a removed candidate is paired with the equal-valued added candidate still in
\* the pool whose key sorts first.
TieBreak ==
    pc = "done" =>
        /\ \A i, j \in 1..Len(MiddleRecords) :
              i < j => OldKey(MiddleRecords[i]) < OldKey(MiddleRecords[j])
        /\ \A i \in 1..Len(MiddleRecords) :
              MiddleRecords[i].tag = "KeyModified" =>
                  \A k \in PoolBefore(i, MiddleRecords[i].value) :
                      MiddleRecords[i].new_key <= k

\* The record of the opposite direction that corresponds to d.
Mirror(d) ==
    CASE d.tag = "ValueModified" -> ValueModified(d.key, d.new_value, d.old_value)
      [] d.tag = "KeyModified" -> KeyModified(d.new_key, d.old_key, d.value)
      [] d.tag = "EntryAdded" -> EntryRemoved(d.key, d.value)
      [] d.tag = "EntryRemoved" -> EntryAdded(d.key, d.value)
      [] OTHER -> d

\* C5 (symmetry): the records of map_diff(right, left) are the mirrored records
\* of map_diff(left, right), in particular with the same renamed pairs.
Symmetry ==
    pc = "done" =>
        \A keys \in IterationOrders(all_keys_of(right, left)) :
            {Mirror(d) : d \in Records(map_diff(right, left, keys))} = Records(diffs)

\* C6 (idempotence): map_diff(m, m) returns exactly one Unchanged{key, m[key]}
\* per key of m and no record that is a change.
Idempotence ==
    (pc = "done" /\ left = right) =>
        /\ Len(diffs) = Cardinality(DOMAIN left)
        /\ \A k \in DOMAIN left :
              Cardinality({i \in 1..Len(diffs) : diffs[i] = EntryUnchanged(k, left[k])}) = 1
        /\ \A i \in 1..Len(diffs) : ~ is_change(diffs[i])

\* A map of at least two entries was diffed against itself.
IdempotenceWitness ==
    /\ pc = "done"
    /\ left = right
    /\ Cardinality(DOMAIN left) >= 2
    /\ Len(diffs) >= 2

\* C7 (shared keys): a key of both maps yields Unchanged{k, left[k]} when the
\* values are equal and ValueModified{k, left[k], right[k]} when they are not,
\* and never appears in an EntryAdded, EntryRemoved or KeyModified record.
SharedKeyClassification ==
    pc = "done" =>
        \A k \in Shared :
            /\ left[k] = right[k] => EntryUnchanged(k, left[k]) \in Records(diffs)
            /\ left[k] # right[k] => ValueModified(k, left[k], right[k]) \in Records(diffs)
            /\ \A i \in 1..Len(diffs) :
                  diffs[i].tag \in {"EntryAdded", "EntryRemoved", "KeyModified"}
                      => k \notin KeysOf(diffs[i])

\* A shared key with two different values, one of them the value of a rename.
SharedKeyClassificationWitness ==
    /\ pc = "done"
    /\ \E k \in Shared :
          /\ left[k] # right[k]
          /\ \E i \in 1..Len(diffs) :
                diffs[i].tag = "KeyModified" /\ diffs[i].value = left[k]

Group(d) ==
    CASE d.tag \in {"Unchanged", "ValueModified"} -> 1
      [] d.tag \in {"KeyModified", "EntryRemoved"} -> 2
      [] OTHER -> 3

\* C8 (grouping order): Unchanged/ValueModified records come first, then
\* KeyModified/EntryRemoved records, then EntryAdded records.
GroupingOrder ==
    pc = "done" =>
        \A i, j \in 1..Len(diffs) : i < j => Group(diffs[i]) <= Group(diffs[j])

\* All three groups occur, although the added key was visited first and the
\* shared key last.
GroupingOrderWitness ==
    /\ pc = "done"
    /\ {"EntryRemoved", "EntryAdded"} \subseteq Tags(diffs)
    /\ Tags(diffs) \cap {"Unchanged", "ValueModified"} # {}
    /\ all_keys[1] \in RightOnly
    /\ all_keys[Len(all_keys)] \in Shared

RenamesOf(v) == {i \in 1..Len(diffs) : diffs[i].tag = "KeyModified" /\ diffs[i].value = v}

\* C9 (maximal matching): for every value v the number of KeyModified records
\* with value v is the minimum of the numbers of left-only and right-only keys
\* holding v; hence no EntryRemoved and EntryAdded carry equal values.
MaximalMatching ==
    pc = "done" =>
        /\ \A v \in Values :
              Cardinality(RenamesOf(v)) =
                  Min2(Cardinality({k \in LeftOnly : left[k] = v}),
                       Cardinality({k \in RightOnly : right[k] = v}))
        /\ \A i, j \in 1..Len(diffs) :
              (diffs[i].tag = "EntryRemoved" /\ diffs[j].tag = "EntryAdded")
                  => diffs[i].value # diffs[j].value

\* Two removed keys compete for one added key of the same value.
MaximalMatchingWitness ==
    /\ pc = "done"
    /\ \E v \in Values :
          /\ Cardinality({k \in LeftOnly : left[k] = v}) = 2
          /\ Cardinality({k \in RightOnly : right[k] = v}) = 1
          /\ Cardinality(RenamesOf(v)) = 1
          /\ \E i \in 1..Len(diffs) : diffs[i].tag = "EntryRemoved" /\ diffs[i].value = v

\* C10 (engine equivalence): on the same maps the string engine and the generic
\* engine return the same set of records, KeyModified records included.
EngineEquivalence ==
    (pc = "done" /\ string_pc = "done") => Records(string_diffs) = Records(diffs)

====
